---- MODULE Spec2Model ----
(***************************************************************************)
(* FixedVec<T>: a fixed-capacity, append-only vector whose push takes      *)
(* &self.  The model follows src/src/fixed_vec.rs and                      *)
(* src/src/fixed_vec/iter.rs.  The heap is a sequence of buffers; an       *)
(* element is a token that is unique per value handed to push, so that     *)
(* moves, copies and destructor runs of one value can be counted.          *)
(* Atomics are sequentially consistent in the model.                       *)
(***************************************************************************)
EXTENDS Integers, Sequences, FiniteSets, TLC

\* ---- bounds of the model ----
NumThreads == 2
PushesPerThread == 3
MaxCap == 4
MaxReallocs == 1
MaxItems == 2

\* usize arithmetic of AtomicUsize::fetch_add wraps modulo 2^BITS; the width
\* is scaled down to 6 bits.
UsizeMod == 64

Threads == 1..NumThreads
MaxTok == NumThreads * PushesPerThread + MaxItems
Toks == 1..MaxTok

\* An uninitialised slot of a buffer.
Uninit == 0
\* NonNull::dangling(): the pointer of a zero-sized allocation.
Dangling == 0

None == <<"None">>
Some(v) == <<"Some", v>>
Ok == <<"Ok">>
Err(v) == <<"Err", v>>
\* The publish loop of push never leaves (its compare-exchange cannot succeed).
Hang == <<"Hang">>

VARIABLES
    vec,      \* the FixedVec: [ptr, next_idx, len, cap]
    heap,     \* the allocator: buffer id -> [cells, frees]
    alive,    \* "live" | "dropped" | "iter" (moved into an IntoIter) |
              \* "iter_dropped" | "hung" (inside a push that cannot return) |
              \* "unwound" (dropped, a destructor of an element panicking)
    pc,       \* per thread: "idle" | "write" | "publish" (position inside push)
    idx,      \* per thread: the index its push reserved
    val,      \* per thread: the value its push was given
    npush,    \* per thread: pushes started
    seq,      \* TRUE while no two pushes have overlapped in time
    made,     \* number of values created so far (the next value is made + 1)
    resv,     \* per value: the index its (last) push reserved, -1 before
    ret,      \* per value: what its (last) push returned, None before
    dropped,  \* per value: number of times its destructor ran
    grows,    \* number of direct calls of realloc so far
    extended, \* number of values extend / from_iter have been given so far
    it,       \* the IntoIter: [ptr, start, end, cap]
    yielded,  \* per index of the buffer: the values the IntoIter returned from it
    it_ret,   \* what the last next / next_back returned
    orig,     \* the published prefix at the time into_iter was called
    cvec,     \* the FixedVec returned by clone(): [ptr, next_idx, len, cap]
    calive    \* "none" (clone not called) | "live" | "dropped" | "hung"

vars == <<vec, heap, alive, pc, idx, val, npush, seq, made, resv, ret,
          dropped, grows, extended, it, yielded, it_ret, orig, cvec, calive>>

threadVars == <<pc, idx, val, npush, seq>>
iterVars == <<it, yielded, it_ret, orig>>
cloneVars == <<cvec, calive>>

\* ---- allocation ----

\* alloc(Layout::array::<T>(capacity)): a fresh buffer of uninitialised slots;
\* a zero-sized layout allocates nothing.
Alloc(h, capacity) ==
    IF capacity = 0 THEN h
    ELSE Append(h, [cells |-> [i \in 0..(capacity - 1) |-> Uninit], frees |-> 0])

AllocPtr(h, capacity) == IF capacity = 0 THEN Dangling ELSE Len(h) + 1

\* FixedVec::new
New(h, capacity) ==
    [vec |-> [ptr |-> AllocPtr(h, capacity), next_idx |-> 0, len |-> 0,
              cap |-> capacity],
     heap |-> Alloc(h, capacity)]

dealloc_vec(h, p, capacity) ==
    IF capacity > 0 THEN [h EXCEPT ![p].frees = @ + 1] ELSE h

\* drop_in_place of the slots [from, from + n) of buffer p: each value's
\* destructor runs once more.
drop_in_place(d, h, p, from, n) ==
    [t \in Toks |->
        d[t] + Cardinality({i \in from..(from + n - 1) : h[p].cells[i] = t})]

\* ---- reads ----

len(v) == v.len

capacity(v) == v.cap

\* Variant: the slice spans the whole buffer.
as_slice_cap(v, h) == [i \in 1..capacity(v) |-> h[v.ptr].cells[i - 1]]

\* slice::from_raw_parts(ptr, len()): the first len() slots, as a sequence.
as_slice(v, h) == [i \in 1..len(v) |-> h[v.ptr].cells[i - 1]]

\* <[T]>::get through Deref
get(v, h, i) ==
    IF i < Len(as_slice(v, h)) THEN Some(as_slice(v, h)[i + 1]) ELSE None

\* ---- push, step by step ----

\* Variant: the value after the increment is taken as the index.
fetch_add_new(v) ==
    [vec |-> [v EXCEPT !.next_idx = (v.next_idx + 1) % UsizeMod],
     prev |-> (v.next_idx + 1) % UsizeMod]

\* next_idx.fetch_add(1, Relaxed): the counter goes up by one (wrapping), the
\* previous value is returned.
fetch_add(v) ==
    [vec |-> [v EXCEPT !.next_idx = (v.next_idx + 1) % UsizeMod],
     prev |-> v.next_idx]

\* Variant: the value is written at the published length, not at the
\* reserved index.
write_at_len(h, v, i, value) == [h EXCEPT ![v.ptr].cells[v.len] = value]

\* ptr.add(idx).write(value)
write(h, v, i, value) == [h EXCEPT ![v.ptr].cells[i] = value]

Init ==
    /\ \E c \in 0..MaxCap :
          /\ vec = New(<<>>, c).vec
          /\ heap = New(<<>>, c).heap
    /\ alive = "live"
    /\ pc = [t \in Threads |-> "idle"]
    /\ idx = [t \in Threads |-> 0]
    /\ val = [t \in Threads |-> 0]
    /\ npush = [t \in Threads |-> 0]
    /\ seq = TRUE
    /\ made = 0
    /\ resv = [k \in Toks |-> -1]
    /\ ret = [k \in Toks |-> None]
    /\ dropped = [k \in Toks |-> 0]
    /\ grows = 0
    /\ extended = 0
    /\ it = [ptr |-> Dangling, start |-> 0, end |-> 0, cap |-> 0]
    /\ yielded = <<>>
    /\ it_ret = <<"Unused">>
    /\ orig = <<>>
    /\ cvec = New(<<>>, 0).vec
    /\ calive = "none"

\* Variant: a rejected push gives its ticket back (the counter is restored).
Reserve_rollback(t) ==
    /\ alive = "live"
    /\ pc[t] = "idle"
    /\ npush[t] < PushesPerThread
    /\ LET value == made + 1
           F == fetch_add(vec)
           i == F.prev
       IN  /\ made' = value
           /\ npush' = [npush EXCEPT ![t] = @ + 1]
           /\ resv' = [resv EXCEPT ![value] = i]
           /\ idx' = [idx EXCEPT ![t] = i]
           /\ val' = [val EXCEPT ![t] = value]
           /\ IF i < vec.cap
              THEN /\ vec' = F.vec
                   /\ pc' = [pc EXCEPT ![t] = "write"]
                   /\ ret' = ret
              ELSE /\ vec' = vec
                   /\ pc' = pc
                   /\ ret' = [ret EXCEPT ![value] = Err(value)]
    /\ seq' = (seq /\ \A u \in Threads : pc[u] = "idle")
    /\ UNCHANGED <<heap, alive, dropped, grows, extended, iterVars, cloneVars>>

\* Variant: the bounds test of push accepts the index equal to the capacity.
Reserve_le(t) ==
    /\ alive = "live"
    /\ pc[t] = "idle"
    /\ npush[t] < PushesPerThread
    /\ LET value == made + 1
           F == fetch_add(vec)
           i == F.prev
       IN  /\ vec' = F.vec
           /\ made' = value
           /\ npush' = [npush EXCEPT ![t] = @ + 1]
           /\ resv' = [resv EXCEPT ![value] = i]
           /\ idx' = [idx EXCEPT ![t] = i]
           /\ val' = [val EXCEPT ![t] = value]
           /\ IF i <= vec.cap
              THEN /\ pc' = [pc EXCEPT ![t] = "write"]
                   /\ ret' = ret
              ELSE /\ pc' = pc
                   /\ ret' = [ret EXCEPT ![value] = Err(value)]
    /\ seq' = (seq /\ \A u \in Threads : pc[u] = "idle")
    /\ UNCHANGED <<heap, alive, dropped, grows, extended, iterVars, cloneVars>>

\* push, lines 92-94 and 109-111: reserve an index; a reservation at or past
\* the capacity returns the value at once.
Reserve(t) ==
    /\ alive = "live"
    /\ pc[t] = "idle"
    /\ npush[t] < PushesPerThread
    /\ LET value == made + 1
           F == fetch_add(vec)
           i == F.prev
       IN  /\ vec' = F.vec
           /\ made' = value
           /\ npush' = [npush EXCEPT ![t] = @ + 1]
           /\ resv' = [resv EXCEPT ![value] = i]
           /\ idx' = [idx EXCEPT ![t] = i]
           /\ val' = [val EXCEPT ![t] = value]
           /\ IF i < vec.cap
              THEN /\ pc' = [pc EXCEPT ![t] = "write"]
                   /\ ret' = ret
              ELSE /\ pc' = pc
                   /\ ret' = [ret EXCEPT ![value] = Err(value)]
    /\ seq' = (seq /\ \A u \in Threads : pc[u] = "idle")
    /\ UNCHANGED <<heap, alive, dropped, grows, extended, iterVars, cloneVars>>

\* push, lines 95-98
Write(t) ==
    /\ pc[t] = "write"
    /\ heap' = write(heap, vec, idx[t], val[t])
    /\ pc' = [pc EXCEPT ![t] = "publish"]
    /\ UNCHANGED <<vec, alive, idx, val, npush, seq, made, resv, ret, dropped,
                   grows, extended, iterVars, cloneVars>>

\* Variant: the compare-exchange expects the new length instead of the old.
CasOk_expect_new(t) ==
    /\ pc[t] = "publish"
    /\ vec.len = idx[t] + 1
    /\ vec' = [vec EXCEPT !.len = idx[t] + 1]
    /\ pc' = [pc EXCEPT ![t] = "idle"]
    /\ ret' = [ret EXCEPT ![val[t]] = Ok]
    /\ UNCHANGED <<heap, alive, idx, val, npush, seq, made, resv, dropped,
                   grows, extended, iterVars, cloneVars>>

\* Variant: the length is stored unconditionally (no compare-exchange loop).
CasOk_store(t) ==
    /\ pc[t] = "publish"
    /\ vec' = [vec EXCEPT !.len = idx[t] + 1]
    /\ pc' = [pc EXCEPT ![t] = "idle"]
    /\ ret' = [ret EXCEPT ![val[t]] = Ok]
    /\ UNCHANGED <<heap, alive, idx, val, npush, seq, made, resv, dropped,
                   grows, extended, iterVars, cloneVars>>

\* push, lines 99-108: the compare-exchange finds len == idx, stores idx + 1,
\* and push returns Ok(()).
CasOk(t) ==
    /\ pc[t] = "publish"
    /\ vec.len = idx[t]
    /\ vec' = [vec EXCEPT !.len = idx[t] + 1]
    /\ pc' = [pc EXCEPT ![t] = "idle"]
    /\ ret' = [ret EXCEPT ![val[t]] = Ok]
    /\ UNCHANGED <<heap, alive, idx, val, npush, seq, made, resv, dropped,
                   grows, extended, iterVars, cloneVars>>

\* push, line 105: compare_exchange_weak fails (len != idx, or spuriously) and
\* the loop goes round again.
CasFail(t) ==
    /\ pc[t] = "publish"
    /\ UNCHANGED vars

\* A caller that got its value back calls push again with it, once the
\* threads have no new values left: the same push code (lines 92-94 and
\* 109-111) with the value thread t still holds. resv keeps the index the
\* value got on its first call, and idx, a local of push, is kept only while
\* the call goes on.
Retry(t) ==
    /\ alive = "live"
    /\ pc[t] = "idle"
    /\ \A u \in Threads : npush[u] = PushesPerThread
    /\ ret[val[t]] = Err(val[t])
    /\ LET F == fetch_add(vec)
           i == F.prev
       IN  /\ vec' = F.vec
           /\ IF i < vec.cap
              THEN /\ idx' = [idx EXCEPT ![t] = i]
                   /\ pc' = [pc EXCEPT ![t] = "write"]
                   /\ ret' = [ret EXCEPT ![val[t]] = None]
              ELSE /\ idx' = idx
                   /\ pc' = pc
                   /\ ret' = ret
    /\ seq' = (seq /\ \A u \in Threads : pc[u] = "idle")
    /\ UNCHANGED <<heap, alive, val, npush, made, resv, dropped, grows,
                   extended, iterVars, cloneVars>>

\* ---- operations under exclusive access (&mut self or self) ----

\* The borrow checker admits &mut self / self only while no push is running.
Exclusive == alive = "live" /\ \A t \in Threads : pc[t] = "idle"

\* A whole push call on a container nobody else touches: S = [vec, heap];
\* the result is Ok, Err(value), or Hang when the publish loop can never
\* succeed (len != idx and no other thread to advance len).
push(S, value) ==
    LET F == fetch_add(S.vec)
        i == F.prev
        v1 == F.vec
    IN  IF i < S.vec.cap
        THEN LET h1 == write(S.heap, v1, i, value)
             IN  IF v1.len = i
                 THEN [vec |-> [v1 EXCEPT !.len = i + 1], heap |-> h1,
                       res |-> Ok, idx |-> i]
                 ELSE [vec |-> v1, heap |-> h1, res |-> Hang, idx |-> i]
        ELSE [vec |-> v1, heap |-> S.heap, res |-> Err(value), idx |-> i]

\* Variant: the copy stops one slot short.
copy_short(h, dst, src, n) ==
    IF n = 0 THEN h
    ELSE [h EXCEPT ![dst].cells =
             [i \in DOMAIN @ |-> IF i < n - 1 THEN h[src].cells[i] ELSE @[i]]]

\* ptr::copy_from_nonoverlapping(src, dst, n): a bitwise copy of n slots.
copy_from_nonoverlapping(h, dst, src, n) ==
    IF n = 0 THEN h
    ELSE [h EXCEPT ![dst].cells =
             [i \in DOMAIN @ |-> IF i < n THEN h[src].cells[i] ELSE @[i]]]

\* Drop for FixedVec: the elements [0, len) are dropped, then DropGuard
\* deallocates.  D = [heap, dropped].
drop_vec(D, v) ==
    [dropped |-> drop_in_place(D.dropped, D.heap, v.ptr, 0, len(v)),
     heap |-> dealloc_vec(D.heap, v.ptr, v.cap)]

\* Variant: the old container keeps its length when it is dropped.
old_len_kept(v) == len(v)

\* The length realloc leaves in the old container before it is dropped.
old_len(v) == 0

\* The doubling policy of realloc.
new_cap(v) == IF v.cap = 0 THEN 1 ELSE v.cap * 2

\* Variant: only the length is carried over, the reservation counter stays 0.
carry_len_only(v, n) == [v EXCEPT !.len = n]

\* realloc, lines 68-69: both counters of the new container are set to the
\* carried-over length.
carry(v, n) == [v EXCEPT !.next_idx = n, !.len = n]

\* FixedVec::realloc on S = [vec, heap, dropped]
realloc(S) ==
    LET n == len(S.vec)
        fresh == New(S.heap, new_cap(S.vec))
        h1 == copy_from_nonoverlapping(fresh.heap, fresh.vec.ptr, S.vec.ptr, n)
        new_vec == carry(fresh.vec, n)
        old_vec == [S.vec EXCEPT !.len = old_len(S.vec)]
        D == drop_vec([heap |-> h1, dropped |-> S.dropped], old_vec)
    IN  [vec |-> new_vec, heap |-> D.heap, dropped |-> D.dropped]

Realloc ==
    /\ Exclusive
    /\ grows < MaxReallocs
    /\ LET R == realloc([vec |-> vec, heap |-> heap, dropped |-> dropped])
       IN  /\ vec' = R.vec
           /\ heap' = R.heap
           /\ dropped' = R.dropped
    /\ grows' = grows + 1
    /\ UNCHANGED <<alive, threadVars, made, resv, ret, extended, iterVars,
                   cloneVars>>

\* One turn of the loop of from_iter / extend (lines 163-168 and 176-181) on
\* S = [vec, heap, dropped, resv, ret, res]: push; on Err, realloc and push
\* again, the second result being discarded (a value returned by it is
\* dropped on the spot).
extend_one(S, item) ==
    LET p1 == push(S, item)
        S1 == [S EXCEPT !.vec = p1.vec, !.heap = p1.heap,
                        !.resv = [@ EXCEPT ![item] = p1.idx],
                        !.ret = [@ EXCEPT ![item] = p1.res], !.res = p1.res]
    IN  IF p1.res \in {Ok, Hang} THEN S1
        ELSE LET R == realloc(S1)
                 p2 == push(R, item)
             IN  [vec |-> p2.vec, heap |-> p2.heap,
                  dropped |-> IF p2.res = Err(item)
                              THEN [R.dropped EXCEPT ![item] = @ + 1]
                              ELSE R.dropped,
                  resv |-> [S1.resv EXCEPT ![item] = p2.idx],
                  ret |-> [S1.ret EXCEPT ![item] = p2.res],
                  res |-> IF p2.res = Hang THEN Hang ELSE Ok]

\* for item in iter { ... } over the values first..last, in production order
RECURSIVE extend_loop(_, _, _)
extend_loop(S, first, last) ==
    IF first > last \/ S.res = Hang THEN S
    ELSE extend_loop(extend_one(S, first), first + 1, last)

\* The body shared by Extend and FromIter (MaxItems values are produced at
\* most, over all calls): k fresh values are produced and
\* pushed in order.
ExtendWith(k) ==
    LET S0 == [vec |-> vec, heap |-> heap, dropped |-> dropped, resv |-> resv,
               ret |-> ret, res |-> Ok]
        S == extend_loop(S0, made + 1, made + k)
    IN  /\ vec' = S.vec
        /\ heap' = S.heap
        /\ dropped' = S.dropped
        /\ resv' = S.resv
        /\ ret' = S.ret
        /\ alive' = IF S.res = Hang THEN "hung" ELSE alive
        /\ made' = made + k
        /\ extended' = extended + k
        /\ UNCHANGED <<threadVars, grows, iterVars, cloneVars>>

\* Extend::extend
Extend ==
    /\ Exclusive
    /\ \E k \in 0..(MaxItems - extended) : ExtendWith(k)

\* upper.unwrap_or(lower) of the producer's size_hint
size_hint_cap(lower, upper) == IF upper = None THEN lower ELSE upper[2]

\* FromIterator::from_iter: Self::new(cap) with the capacity taken from the
\* size hint (the initial state with that capacity), then the loop.
FromIter ==
    /\ Exclusive
    /\ made = 0 /\ grows = 0 /\ extended = 0
    /\ \E lower \in 0..MaxCap, upper \in {None} \cup {Some(u) : u \in 0..MaxCap} :
          vec.cap = size_hint_cap(lower, upper)
    /\ \E k \in 0..MaxItems : ExtendWith(k)

\* Drop for FixedVec
DropVec ==
    /\ Exclusive
    /\ LET D == drop_vec([heap |-> heap, dropped |-> dropped], vec)
       IN  /\ heap' = D.heap
           /\ dropped' = D.dropped
    /\ alive' = "dropped"
    /\ UNCHANGED <<vec, threadVars, made, resv, ret, grows, extended, iterVars,
                   cloneVars>>

\* Variant: the buffer is deallocated by a statement after drop_in_place, which
\* a panic skips.
drop_unwind_no_guard(D, v) ==
    [dropped |-> drop_in_place(D.dropped, D.heap, v.ptr, 0, len(v)),
     heap |-> D.heap]

\* Drop for FixedVec when the destructor of an element panics: the slice's
\* drop glue goes on dropping the other elements while unwinding, and
\* _guard, declared before drop_in_place, is dropped by the unwinding too
\* (lines 207-211 and 218).  D = [heap, dropped].
drop_unwind(D, v) ==
    [dropped |-> drop_in_place(D.dropped, D.heap, v.ptr, 0, len(v)),
     heap |-> dealloc_vec(D.heap, v.ptr, v.cap)]

\* Drop for FixedVec, an element's destructor panicking once.
DropVecPanic ==
    /\ Exclusive
    /\ len(vec) >= 1
    /\ LET D == drop_unwind([heap |-> heap, dropped |-> dropped], vec)
       IN  /\ heap' = D.heap
           /\ dropped' = D.dropped
    /\ alive' = "unwound"
    /\ UNCHANGED <<vec, threadVars, made, resv, ret, grows, extended, iterVars,
                   cloneVars>>

\* Variant: into_iter lets the container's destructor run when self goes out
\* of scope.
IntoIter_armed ==
    /\ Exclusive
    /\ it' = [ptr |-> vec.ptr, start |-> 0, end |-> len(vec),
              cap |-> capacity(vec)]
    /\ orig' = as_slice(vec, heap)
    /\ yielded' = [i \in 0..(capacity(vec) - 1) |-> <<>>]
    /\ alive' = "iter"
    /\ LET D == drop_vec([heap |-> heap, dropped |-> dropped], vec)
       IN  /\ heap' = D.heap
           /\ dropped' = D.dropped
    /\ UNCHANGED <<vec, threadVars, made, resv, ret, grows, extended, it_ret,
                   cloneVars>>

\* ---- the owning iterator (src/src/fixed_vec/iter.rs) ----

\* Variant: the iterator ends at the capacity instead of the length.
IntoIter_to_cap ==
    /\ Exclusive
    /\ it' = [ptr |-> vec.ptr, start |-> 0, end |-> capacity(vec),
              cap |-> capacity(vec)]
    /\ orig' = as_slice(vec, heap)
    /\ yielded' = [i \in 0..(capacity(vec) - 1) |-> <<>>]
    /\ alive' = "iter"
    /\ UNCHANGED <<vec, heap, threadVars, made, resv, ret, dropped, grows,
                   extended, it_ret, cloneVars>>

\* IntoIterator for FixedVec<T>: the container is forgotten (ManuallyDrop),
\* its buffer now belongs to the iterator.
IntoIter ==
    /\ Exclusive
    /\ it' = [ptr |-> vec.ptr, start |-> 0, end |-> len(vec),
              cap |-> capacity(vec)]
    /\ orig' = as_slice(vec, heap)
    /\ yielded' = [i \in 0..(capacity(vec) - 1) |-> <<>>]
    /\ alive' = "iter"
    /\ UNCHANGED <<vec, heap, threadVars, made, resv, ret, dropped, grows,
                   extended, it_ret, cloneVars>>

\* IntoIter::next
IterNext ==
    /\ alive = "iter"
    /\ IF it.start = it.end
       THEN /\ it_ret' = None
            /\ UNCHANGED <<it, yielded>>
       ELSE LET item == heap[it.ptr].cells[it.start]
            IN  /\ it' = [it EXCEPT !.start = @ + 1]
                /\ it_ret' = Some(item)
                /\ yielded' = [yielded EXCEPT ![it.start] = Append(@, item)]
    /\ UNCHANGED <<vec, heap, alive, threadVars, made, resv, ret, dropped,
                   grows, extended, orig, cloneVars>>

\* IntoIter::next_back
IterNextBack ==
    /\ alive = "iter"
    /\ IF it.end = it.start
       THEN /\ it_ret' = None
            /\ UNCHANGED <<it, yielded>>
       ELSE LET item == heap[it.ptr].cells[it.end - 1]
            IN  /\ it' = [it EXCEPT !.end = @ - 1]
                /\ it_ret' = Some(item)
                /\ yielded' = [yielded EXCEPT ![it.end - 1] = Append(@, item)]
    /\ UNCHANGED <<vec, heap, alive, threadVars, made, resv, ret, dropped,
                   grows, extended, orig, cloneVars>>

\* Variant: every slot below end is dropped, yielded or not.
IterDrop_from_zero ==
    /\ alive = "iter"
    /\ LET remaining == it.end
       IN  dropped' = drop_in_place(dropped, heap, it.ptr, 0, remaining)
    /\ heap' = dealloc_vec(heap, it.ptr, it.cap)
    /\ alive' = "iter_dropped"
    /\ UNCHANGED <<vec, threadVars, made, resv, ret, grows, extended, iterVars,
                   cloneVars>>

\* Drop for IntoIter: the slots [start, end) are dropped, then DropGuard
\* deallocates.
IterDrop ==
    /\ alive = "iter"
    /\ LET remaining == it.end - it.start
       IN  dropped' = drop_in_place(dropped, heap, it.ptr, it.start, remaining)
    /\ heap' = dealloc_vec(heap, it.ptr, it.cap)
    /\ alive' = "iter_dropped"
    /\ UNCHANGED <<vec, threadVars, made, resv, ret, grows, extended, iterVars,
                   cloneVars>>

Next ==
    \/ \E t \in Threads : Reserve(t)
    \/ \E t \in Threads : Write(t)
    \/ \E t \in Threads : CasOk(t)
    \/ \E t \in Threads : CasFail(t)
    \/ Realloc
    \/ Extend
    \/ FromIter
    \/ DropVec
    \/ DropVecPanic
    \/ IntoIter
    \/ IterNext
    \/ IterNextBack
    \/ IterDrop

Spec == Init /\ [][Next]_vars

\* Threads sharing the container and doing nothing but push
\* (tests::concurrent_push).
PushNext ==
    \/ \E t \in Threads : Reserve(t)
    \/ \E t \in Threads : Write(t)
    \/ \E t \in Threads : CasOk(t)
    \/ \E t \in Threads : CasFail(t)

PushSpec == Init /\ [][PushNext]_vars

\* The same under fair scheduling: a thread inside push keeps running, and a
\* compare-exchange that can succeed does not fail spuriously for ever.
LiveSpec ==
    PushSpec /\ \A t \in Threads : WF_vars(Write(t)) /\ WF_vars(CasOk(t))

\* Threads that push, and push again what was handed back to them, for as
\* long as they like: the reservation counter runs through all of usize.
WrapNext ==
    \/ \E t \in Threads : Reserve(t)
    \/ \E t \in Threads : Retry(t)
    \/ \E t \in Threads : Write(t)
    \/ \E t \in Threads : CasOk(t)
    \/ \E t \in Threads : CasFail(t)

WrapSpec == Init /\ [][WrapNext]_vars

\* The same, every thread that is inside push getting to run its next step.
WrapLiveSpec ==
    WrapSpec /\ \A t \in Threads : WF_vars(Write(t)) /\ WF_vars(CasOk(t))

\* The thread that owns the container in single-threaded use.
Owner == 1

\* One thread owning the container and using all of its interface
\* (tests::single_thread, tests::realloc).
OwnerNext ==
    \/ Reserve(Owner)
    \/ Write(Owner)
    \/ CasOk(Owner)
    \/ CasFail(Owner)
    \/ Realloc
    \/ Extend
    \/ FromIter
    \/ DropVec
    \/ IntoIter
    \/ IterNext
    \/ IterNextBack
    \/ IterDrop

OwnerSpec == Init /\ [][OwnerNext]_vars

\* One thread filling and growing its container until the container is
\* dropped, the destructors of the elements returning or panicking
\* (tests::realloc).
GrowNext ==
    \/ Reserve(Owner)
    \/ Write(Owner)
    \/ CasOk(Owner)
    \/ CasFail(Owner)
    \/ Realloc
    \/ Extend
    \/ FromIter
    \/ DropVec
    \/ DropVecPanic

GrowSpec == Init /\ [][GrowNext]_vars

\* ---- Clone for FixedVec ----

\* T::clone: a new value equal to x (the same number, the sign telling the
\* copy from the value it was made from).
clone_T(x) == -x

\* for i in 0..len { if let Some(item) = self.get(i) { .. } }, from index i
\* on; S = [src, heap, new_vec].
RECURSIVE clone_loop(_, _, _)
clone_loop(S, i, n) ==
    IF i >= n THEN S
    ELSE LET item == get(S.src, S.heap, i)
         IN  IF item = None THEN clone_loop(S, i + 1, n)
             ELSE LET P == push([vec |-> S.new_vec, heap |-> S.heap],
                                clone_T(item[2]))
                  IN  clone_loop([S EXCEPT !.new_vec = P.vec, !.heap = P.heap],
                                 i + 1, n)

\* Variant: the clone is a copy of the fields, over the same buffer.
clone_fields(S) == [vec |-> S.vec, heap |-> S.heap]

\* Clone::clone on S = [vec, heap]: a new container of the same capacity,
\* the clones of the elements [0, len) pushed into it one by one.
clone(S) ==
    LET fresh == New(S.heap, S.vec.cap)
        L == clone_loop([src |-> S.vec, heap |-> fresh.heap,
                         new_vec |-> fresh.vec], 0, len(S.vec))
    IN  [vec |-> L.new_vec, heap |-> L.heap]

\* clone() takes &self: the container is alive and the caller, the owner, is
\* not inside a push.
Clone ==
    /\ alive = "live"
    /\ pc[Owner] = "idle"
    /\ calive = "none"
    /\ LET C == clone([vec |-> vec, heap |-> heap])
       IN  /\ cvec' = C.vec
           /\ heap' = C.heap
    /\ calive' = "live"
    /\ UNCHANGED <<vec, alive, threadVars, made, resv, ret, dropped, grows,
                   extended, iterVars>>

\* A whole push call of the owner on the clone, with a new value.
ClonePush ==
    /\ calive = "live"
    /\ pc[Owner] = "idle"
    /\ npush[Owner] < PushesPerThread
    /\ LET value == made + 1
           P == push([vec |-> cvec, heap |-> heap], value)
       IN  /\ cvec' = P.vec
           /\ heap' = P.heap
           /\ made' = value
           /\ resv' = [resv EXCEPT ![value] = P.idx]
           /\ ret' = [ret EXCEPT ![value] = P.res]
           /\ calive' = IF P.res = Hang THEN "hung" ELSE calive
    /\ npush' = [npush EXCEPT ![Owner] = @ + 1]
    /\ UNCHANGED <<vec, alive, pc, idx, val, seq, dropped, grows, extended,
                   iterVars>>

\* realloc on the clone
CloneRealloc ==
    /\ calive = "live"
    /\ pc[Owner] = "idle"
    /\ grows < MaxReallocs
    /\ LET R == realloc([vec |-> cvec, heap |-> heap, dropped |-> dropped])
       IN  /\ cvec' = R.vec
           /\ heap' = R.heap
           /\ dropped' = R.dropped
    /\ grows' = grows + 1
    /\ UNCHANGED <<vec, alive, threadVars, made, resv, ret, extended,
                   iterVars, calive>>

\* Drop for FixedVec, on the clone
CloneDrop ==
    /\ calive = "live"
    /\ pc[Owner] = "idle"
    /\ LET D == drop_vec([heap |-> heap, dropped |-> dropped], cvec)
       IN  /\ heap' = D.heap
           /\ dropped' = D.dropped
    /\ calive' = "dropped"
    /\ UNCHANGED <<vec, alive, threadVars, made, resv, ret, grows, extended,
                   iterVars, cvec>>

\* as_mut_slice().swap(i, j): the elements at i and j change places.
swap(h, v, i, j) ==
    [h EXCEPT ![v.ptr].cells =
        [k \in DOMAIN @ |-> IF k = i THEN @[j] ELSE IF k = j THEN @[i] ELSE @[k]]]

\* The container is mutated in place through DerefMut (&mut self): its
\* first and last elements are swapped.
SwapEnds ==
    /\ Exclusive
    /\ len(vec) >= 2
    /\ heap' = swap(heap, vec, 0, len(vec) - 1)
    /\ UNCHANGED <<vec, alive, threadVars, made, resv, ret, dropped, grows,
                   extended, iterVars, cloneVars>>

\* The same on the clone.
CloneSwapEnds ==
    /\ calive = "live"
    /\ pc[Owner] = "idle"
    /\ len(cvec) >= 2
    /\ heap' = swap(heap, cvec, 0, len(cvec) - 1)
    /\ UNCHANGED <<vec, alive, threadVars, made, resv, ret, dropped, grows,
                   extended, iterVars, cloneVars>>

\* One thread owning a container and a clone of it, pushing into, mutating,
\* growing and dropping either (tests::single_thread, lines 20-25, goes
\* on using both).
CloneNext ==
    \/ Reserve(Owner)
    \/ Write(Owner)
    \/ CasOk(Owner)
    \/ CasFail(Owner)
    \/ Realloc
    \/ DropVec
    \/ SwapEnds
    \/ Clone
    \/ ClonePush
    \/ CloneSwapEnds
    \/ CloneRealloc
    \/ CloneDrop

CloneSpec == Init /\ [][CloneNext]_vars

\* ---- properties ----

Min(a, b) == IF a < b THEN a ELSE b

Idle == \A t \in Threads : pc[t] = "idle"

\* The slot i of the container's buffer.
Slot(i) == heap[vec.ptr].cells[i]

\* C1: prefix-consistency.  While threads push concurrently, every index below
\* the published length is a slot that was reserved, is not waiting for its
\* write, and holds the value of the push that reserved it.
C1_PrefixConsistent ==
    alive = "live" =>
        /\ vec.len <= vec.next_idx
        /\ vec.len <= vec.cap
        /\ \A i \in 0..(vec.len - 1) :
              /\ Slot(i) # Uninit
              /\ resv[Slot(i)] = i
              /\ \A t \in Threads : ~(pc[t] = "write" /\ idx[t] = i)

\* A higher slot is written and waits to publish while the slot below it is
\* reserved and not yet written, with a published prefix already there.
C1_Witness ==
    /\ alive = "live"
    /\ vec.len >= 1
    /\ \E t, u \in Threads :
          pc[t] = "write" /\ pc[u] = "publish" /\ idx[u] = idx[t] + 1
             /\ idx[t] = vec.len

\* All threads have made all their pushes, and nothing but push has run.
AllPushed ==
    /\ alive = "live" /\ grows = 0 /\ extended = 0
    /\ Idle
    /\ \A t \in Threads : npush[t] = PushesPerThread

\* C2: once N threads have each pushed M distinct values into a container
\* that never grew, exactly min(cap, N*M) pushes returned Ok, len() is that
\* number, every value whose reserved index was below cap is stored once at
\* that index, and every other value was handed back and is stored nowhere.
C2_ConcurrentPush ==
    AllPushed =>
        /\ Cardinality({k \in 1..made : ret[k] = Ok})
              = Min(vec.cap, NumThreads * PushesPerThread)
        /\ len(vec) = Min(vec.cap, NumThreads * PushesPerThread)
        /\ \A k \in 1..made :
              IF resv[k] < vec.cap
              THEN ret[k] = Ok /\ Slot(resv[k]) = k
              ELSE ret[k] = Err(k) /\ \A i \in 0..(vec.cap - 1) : Slot(i) # k
        /\ \A i, j \in 0..(len(vec) - 1) : Slot(i) = Slot(j) => i = j

\* All pushes are over, some succeeded and some were rejected.
C2_Witness ==
    /\ AllPushed
    /\ ~seq
    /\ vec.cap >= 2
    /\ vec.cap < NumThreads * PushesPerThread

\* Thread t starts a push in this step.
Starts(t) == npush'[t] = npush[t] + 1

\* C3: a push that reserves an index >= capacity returns Err with the value
\* it was given, writes no slot, leaves len() and the stored elements as they
\* were, and leaves the reservation counter incremented by one.
C3_Rejected ==
    [][\A t \in Threads :
          (Starts(t) /\ vec.next_idx >= vec.cap) =>
              /\ ret'[made'] = Err(made')
              /\ val'[t] = made'
              /\ pc'[t] = "idle"
              /\ heap' = heap
              /\ len(vec') = len(vec)
              /\ vec'.cap = vec.cap /\ vec'.ptr = vec.ptr
              /\ vec'.next_idx = (vec.next_idx + 1) % UsizeMod]_vars

\* A push was rejected while another push was between reserving and writing.
C3_Witness ==
    \E t, u \in Threads :
        /\ pc[t] = "idle" /\ npush[t] >= 1 /\ ret[val[t]] = Err(val[t])
        /\ pc[u] = "write" /\ val[u] < val[t]
        /\ vec.next_idx > vec.cap

\* Only push has run so far, one call at a time.
SeqUse == alive = "live" /\ grows = 0 /\ extended = 0 /\ seq /\ Idle

\* C4: on a fresh container of capacity c used sequentially, the k-th push
\* (k <= c) returns Ok and stores its value at index k - 1, len() is the
\* number of pushes up to c, and every later push returns Err with its value.
C4_Sequential ==
    SeqUse =>
        /\ len(vec) = Min(made, vec.cap)
        /\ \A k \in 1..made :
              IF k <= vec.cap
              THEN ret[k] = Ok /\ get(vec, heap, k - 1) = Some(k)
              ELSE ret[k] = Err(k)

\* c pushes succeeded and push c + 1 was rejected, for a capacity c >= 2.
C4_Witness ==
    /\ SeqUse
    /\ vec.cap >= 2
    /\ made = vec.cap + 1
    /\ ret[made] = Err(made)

\* What get(i) returns now, and what it returns after the step.
Get(i) == get(vec, heap, i)
GetNext(i) == get(vec', heap', i)

\* C5: during concurrent pushes get(i) is the value pushed into slot i for
\* i < len() and None for i >= len(); every push that returned Ok is read
\* back at its index; and a present get(i) stays present with the same value
\* (len() never decreases).
C5_GetStable ==
    /\ [](/\ \A i \in 0..(vec.cap + 1) :
               IF i < len(vec)
               THEN \E k \in 1..made :
                       Get(i) = Some(k) /\ resv[k] = i /\ ret[k] = Ok
               ELSE Get(i) = None
          /\ \A k \in 1..made : ret[k] = Ok => Get(resv[k]) = Some(k))
    /\ [][/\ len(vec') >= len(vec)
          /\ \A i \in 0..(vec.cap + 1) :
                Get(i) # None => GetNext(i) = Get(i)]_vars

\* A slot above the published prefix is already written, and still absent.
C5_Witness ==
    /\ len(vec) >= 1
    /\ Get(0) = Some(1)
    /\ \E t \in Threads :
          /\ pc[t] = "publish" /\ idx[t] > len(vec)
          /\ Slot(idx[t]) = val[t] /\ Get(idx[t]) = None

\* Thread t is inside push (it reserved an index below the capacity).
InPush(t) == pc[t] \in {"write", "publish"}

\* C6: under fair scheduling every push that reserved an index below the
\* capacity returns Ok; while its compare-exchange cannot succeed, a push
\* with a smaller index is still running; a push that reserves an index
\* >= capacity returns in that very step, whatever the others are doing.
C6_PushReturns ==
    /\ \A k \in Toks :
          (\E t \in Threads : InPush(t) /\ val[t] = k) ~> (ret[k] = Ok)
    /\ [](\A t \in Threads :
             (pc[t] = "publish" /\ vec.len # idx[t]) =>
                 \E u \in Threads :
                    InPush(u) /\ idx[u] < idx[t] /\ idx[u] >= vec.len)
    /\ [][\A t \in Threads :
             (Starts(t) /\ vec.next_idx >= vec.cap) =>
                 ~InPush(t)' /\ ret'[val'[t]] = Err(val'[t])]_vars

\* A push spins in its publish loop (its compare-exchange cannot succeed yet)
\* because the push that reserved the slot below has not written it.
C6_Witness ==
    \E t, u \in Threads :
        /\ pc[t] = "publish" /\ idx[t] > vec.len /\ ~ENABLED CasOk(t)
        /\ pc[u] = "write" /\ idx[u] = vec.len
        /\ npush[t] >= 2

\* C7: realloc on a container of capacity k and length n leaves capacity 2k
\* (1 when k = 0), len() = n, and get(i) as it was for every i.
C7_ReallocPreserves ==
    [][(grows' = grows + 1) =>
          /\ capacity(vec') = IF capacity(vec) = 0 THEN 1 ELSE 2 * capacity(vec)
          /\ len(vec') = len(vec)
          /\ \A i \in 0..(capacity(vec') + 1) : GetNext(i) = Get(i)]_vars

\* A full container of at least two elements has been reallocated: it lives
\* in the second buffer and the first one has been freed.
C7_Witness ==
    /\ alive = "live" /\ grows = 1 /\ extended = 0
    /\ len(vec) >= 2
    /\ capacity(vec) = 2 * len(vec)
    /\ vec.ptr = 2 /\ heap[1].frees = 1
    /\ Get(len(vec) - 1) = Some(len(vec))

Remaining == it.start..(it.end - 1)

\* C9: whatever the interleaving of next and next_back,
\* 0 <= start <= end <= len; an index outside [start, end) has been yielded
\* exactly once, with the original element at that index, an index inside
\* not at all; next returns the element at start and advances it, next_back
\* the element at end - 1 and retracts it; both return None, changing
\* nothing, once start = end.
C9_IterOnce ==
    /\ [](alive = "iter" =>
            /\ 0 <= it.start /\ it.start <= it.end /\ it.end <= Len(orig)
            /\ \A i \in DOMAIN yielded :
                  yielded[i] = IF i < Len(orig) /\ i \notin Remaining
                               THEN <<orig[i + 1]>> ELSE <<>>)
    /\ [][(alive = "iter" /\ alive' = "iter") =>
            /\ (it.start = it.end) => (it' = it /\ it_ret' = None)
            /\ (it_ret' = None) => (it.start = it.end)
            /\ (it'.start # it.start) =>
                  /\ it' = [it EXCEPT !.start = @ + 1]
                  /\ it_ret' = Some(orig[it.start + 1])
            /\ (it'.end # it.end) =>
                  /\ it' = [it EXCEPT !.end = @ - 1]
                  /\ it_ret' = Some(orig[it.end])]_vars

\* An iterator over at least three elements has been consumed from both
\* ends until they met, and has then returned None.
C9_Witness ==
    /\ alive = "iter"
    /\ Len(orig) >= 3
    /\ it.start = it.end
    /\ 0 < it.start /\ it.start < Len(orig)
    /\ it_ret = None

\* C10: once the iterator is dropped, every element of the original
\* container was either yielded once or destroyed once, never both and
\* never neither; the destroyed ones are those of [start, end); nothing else
\* was destroyed; and every buffer, the iterator's included, was freed once.
\* Before the drop nothing is destroyed and the buffer is not freed.
C10_IterDrop ==
    /\ alive = "iter_dropped" =>
          /\ \A i \in 0..(Len(orig) - 1) :
                /\ Len(yielded[i]) + dropped[orig[i + 1]] = 1
                /\ dropped[orig[i + 1]] = IF i \in Remaining THEN 1 ELSE 0
          /\ \A k \in Toks :
                (\A i \in 1..Len(orig) : orig[i] # k) => dropped[k] = 0
          /\ \A b \in DOMAIN heap : heap[b].frees = 1
    /\ alive = "iter" =>
          /\ \A k \in Toks : dropped[k] = 0
          /\ it.cap > 0 => heap[it.ptr].frees = 0

\* An iterator was dropped after yielding from both ends, with elements
\* left in the middle.
C10_Witness ==
    /\ alive = "iter_dropped"
    /\ 0 < it.start /\ it.start < it.end /\ it.end < Len(orig)

\* C12: in a container built with capacity 0 that never grew, every push, by
\* any thread under any interleaving, returns its value in the step that
\* reserves (no push is ever between reserving and returning), nothing is
\* allocated or written, and len() and capacity() are 0 in every state.
C12_ZeroCapacity ==
    (alive = "live" /\ capacity(vec) = 0) =>
        /\ len(vec) = 0
        /\ Idle
        /\ \A k \in 1..made : ret[k] = Err(k)
        /\ vec.ptr = Dangling
        /\ heap = <<>>

\* Both threads have had pushes rejected by a container of capacity 0.
C12_Witness ==
    /\ alive = "live" /\ capacity(vec) = 0
    /\ \A t \in Threads : npush[t] >= 2 /\ ret[val[t]] = Err(val[t])

\* The threads that are between reserving index i and returning.
Owners(i) == {t \in Threads : InPush(t) /\ idx[t] = i}

\* C13: on one storage no two pushes obtain the same index, a slot that has
\* been written is never written again, and every slot in
\* [len, min(next_idx, cap)) is owned by exactly one thread in a push.
C13_UniqueIndices ==
    /\ [](alive = "live" =>
            /\ \A j, k \in 1..made : j # k => resv[j] # resv[k]
            /\ \A t, u \in Threads :
                  (t # u /\ InPush(t) /\ InPush(u)) => idx[t] # idx[u]
            /\ \A i \in len(vec)..(Min(vec.next_idx, vec.cap) - 1) :
                  Cardinality(Owners(i)) = 1)
    /\ [][(alive = "live" /\ alive' = "live" /\ vec'.ptr = vec.ptr) =>
            \A i \in 0..(vec.cap - 1) :
                Slot(i) # Uninit => heap'[vec.ptr].cells[i] = Slot(i)]_vars

\* C14: the published length changes only by a push that reserved exactly
\* the current length, had written its slot and now returns Ok; it goes up
\* by one; and the push that reserved the index below has returned Ok
\* before.  The slot writes themselves are not ordered.
C14_PublishInOrder ==
    [][len(vec') # len(vec) =>
          /\ len(vec') = len(vec) + 1
          /\ \E t \in Threads :
                /\ pc[t] = "publish" /\ idx[t] = len(vec)
                /\ Slot(idx[t]) = val[t]
                /\ pc'[t] = "idle" /\ ret'[val[t]] = Ok
          /\ len(vec) > 0 =>
                \E k \in 1..made : resv[k] = len(vec) - 1 /\ ret[k] = Ok]_vars

\* Index 0 is published; the slot of index 2 was written before the slot of
\* index 1, whose push has reserved and not yet written.
C14_Witness ==
    /\ alive = "live"
    /\ capacity(vec) >= 3
    /\ len(vec) = 1
    /\ vec.next_idx >= 3
    /\ Slot(1) = Uninit
    /\ Slot(2) # Uninit
    /\ \E t \in Threads : pc[t] = "write" /\ idx[t] = 1

\* C15: in every state of a live container, 0 <= len <= cap and
\* next_idx >= len.
C15_CounterBounds ==
    alive = "live" =>
        /\ 0 <= len(vec)
        /\ len(vec) <= capacity(vec)
        /\ vec.next_idx >= len(vec)

\* C19: over the pushes on one storage the reservation counter, a usize
\* incremented by every call, never decreases, so once a push has been
\* rejected no later push gets an index below the capacity: no thread moves
\* from idle to writing a slot.
C19_Monotonic ==
    [][(alive = "live" /\ alive' = "live" /\ vec'.ptr = vec.ptr) =>
          /\ vec'.next_idx >= vec.next_idx
          /\ (\E k \in 1..made : ret[k] = Err(k)) =>
                \A t \in Threads : pc[t] = "idle" => pc'[t] = "idle"]_vars

\* C20: whenever no push is in progress on a live container,
\* len == min(next_idx, cap).
C20_Quiescent ==
    (alive = "live" /\ Idle) => len(vec) = Min(vec.next_idx, vec.cap)

\* The values held in the slots [0, len) of the container.
Held == {Slot(i) : i \in 0..(len(vec) - 1)}

\* The buffers of the heap other than the container's.
Others == {b \in 1..Len(heap) : b # vec.ptr}

\* C16: the destructor of the container runs the destructor of every element
\* in [0, len) once and of nothing else, and frees the buffer once, no other
\* buffer and nothing in a buffer being touched; when the destructor of an
\* element panics the buffer is still freed once.
C16_DropOnce ==
    [][(alive = "live" /\ alive' \in {"dropped", "unwound"}) =>
          /\ capacity(vec) > 0 =>
                /\ heap[vec.ptr].frees = 0
                /\ heap'[vec.ptr].frees = 1
                /\ heap'[vec.ptr].cells = heap[vec.ptr].cells
          /\ Len(heap') = Len(heap)
          /\ \A b \in Others : heap'[b] = heap[b]
          /\ alive' = "dropped" =>
                \A k \in Toks :
                    dropped'[k] = dropped[k] + (IF k \in Held THEN 1 ELSE 0)]_vars

\* A container of two elements or more has been dropped with the destructor
\* of an element panicking, and its buffer is freed.
C16_Witness ==
    /\ alive = "unwound"
    /\ len(vec) >= 2
    /\ heap[vec.ptr].frees = 1

\* C17: realloc runs no destructor and frees the old buffer, once; while the
\* container lives no destructor has run and every buffer but its own is
\* freed once; after pushes and reallocs followed by drop, every value that
\* was accepted has had its destructor run once, every value handed back to
\* the caller not at all, and every buffer ever allocated is freed once.
C17_GrowthDropsOnce ==
    /\ [](alive = "live" =>
            /\ \A k \in Toks : dropped[k] = 0
            /\ \A b \in Others : heap[b].frees = 1
            /\ capacity(vec) > 0 => heap[vec.ptr].frees = 0)
    /\ [](alive = "dropped" =>
            /\ \A k \in 1..made :
                  dropped[k] = (IF ret[k] = Ok THEN 1 ELSE 0)
            /\ \A b \in 1..Len(heap) : heap[b].frees = 1)
    /\ [][grows' = grows + 1 =>
            /\ dropped' = dropped
            /\ Len(heap') = Len(heap) + 1
            /\ \A b \in 1..Len(heap) :
                  heap'[b].frees = (IF b = vec.ptr THEN 1 ELSE heap[b].frees)]_vars

\* A container that holds two elements or more after a realloc has been
\* dropped.
C17_Witness ==
    /\ alive = "dropped"
    /\ grows >= 1
    /\ len(vec) >= 2
    /\ \E k \in 1..made : ret[k] # Ok

\* C18: into_iter hands the container's buffer to the iterator without
\* running a destructor or freeing; for one buffer either the destructor of
\* the container or that of the iterator runs destructors and frees, never
\* both (the buffer is freed once) and, once either is gone, never neither.
C18_OneDestructor ==
    /\ alive = "iter" =>
          /\ it.ptr = vec.ptr /\ it.cap = capacity(vec)
          /\ \A k \in Toks : dropped[k] = 0
          /\ capacity(vec) > 0 => heap[vec.ptr].frees = 0
    /\ alive \in {"dropped", "iter_dropped"} =>
          /\ \A k \in Toks : dropped[k] <= 1
          /\ capacity(vec) > 0 => heap[vec.ptr].frees = 1
    /\ alive = "dropped" =>
          /\ it.ptr = Dangling /\ it.cap = 0
          /\ \A k \in Held : dropped[k] = 1
    /\ alive = "iter_dropped" =>
          \A i \in 0..(Len(orig) - 1) :
              dropped[orig[i + 1]] = (IF i \in Remaining THEN 1 ELSE 0)

\* An iterator over three elements or more was dropped after yielding from
\* both ends, and the buffer it took over is freed once.
C18_Witness ==
    /\ alive = "iter_dropped"
    /\ Len(orig) >= 3
    /\ it.start >= 1 /\ it.end < Len(orig)
    /\ heap[it.ptr].frees = 1

\* What a value amounts to, whether it is a copy made by T::clone or not.
payload(x) == IF x < 0 THEN -x ELSE x

\* The values held in the slots [0, len) of the clone.
CHeld == {heap[cvec.ptr].cells[i] : i \in 0..(len(cvec) - 1)}

\* The step is an operation on the container that was cloned.
OnSource ==
    \/ Reserve(Owner) \/ Write(Owner) \/ CasOk(Owner)
    \/ SwapEnds \/ Realloc \/ DropVec

\* The step is an operation on the clone.
OnClone == ClonePush \/ CloneSwapEnds \/ CloneRealloc \/ CloneDrop

\* C11: clone() leaves the source as it is and returns a container of the
\* same capacity and length whose element i equals the source's for every
\* i < len, in a buffer of its own; after that, a push, mutation, growth or
\* drop of one container leaves the buffer of the other, hence its length
\* and elements, untouched, and runs no destructor of a value the other
\* holds.
C11_CloneIndependent ==
    [][/\ (calive = "none" /\ calive' = "live") =>
            /\ capacity(cvec') = capacity(vec)
            /\ len(cvec') = len(vec)
            /\ \A i \in 0..(len(vec) - 1) :
                  /\ get(cvec', heap', i) # None
                  /\ get(cvec', heap', i)[2] # Slot(i)
                  /\ payload(get(cvec', heap', i)[2]) = payload(Slot(i))
            /\ \A i \in len(vec)..capacity(vec) : get(cvec', heap', i) = None
            /\ capacity(vec) > 0 =>
                  /\ cvec'.ptr \notin 1..Len(heap)
                  /\ heap'[cvec'.ptr].frees = 0
            /\ vec' = vec /\ alive' = alive /\ dropped' = dropped
            /\ \A b \in 1..Len(heap) : heap'[b] = heap[b]
       /\ (calive # "none" /\ OnSource) =>
            /\ cvec' = cvec /\ calive' = calive
            /\ capacity(cvec) > 0 => heap'[cvec.ptr] = heap[cvec.ptr]
            /\ calive = "live" =>
                  \A k \in CHeld \cap Toks : dropped'[k] = dropped[k]
       /\ OnClone =>
            /\ vec' = vec /\ alive' = alive
            /\ capacity(vec) > 0 => heap'[vec.ptr] = heap[vec.ptr]
            /\ alive = "live" => \A k \in Held : dropped'[k] = dropped[k]]_vars

\* The source was cloned holding two elements, then had them swapped and was
\* dropped; its clone lives on with the copies of the two elements in their
\* first order and a value pushed after the cloning.
C11_Witness ==
    /\ alive = "dropped"
    /\ calive = "live"
    /\ len(vec) = 2 /\ len(cvec) = 3
    /\ payload(heap[cvec.ptr].cells[0]) = Slot(1)
    /\ payload(heap[cvec.ptr].cells[1]) = Slot(0)
    /\ heap[cvec.ptr].cells[0] < 0
    /\ heap[cvec.ptr].cells[2] > 0
    /\ heap[cvec.ptr].frees = 0

====
